---- MODULE Spec2Model ----
(***************************************************************************)
(* Caesar cipher tool (grantranda/caesar-cipher, src/main.rs).             *)
(*                                                                         *)
(* The model has two parts:                                                *)
(*   - the cipher engine, fn encrypt, as an operator over texts that are   *)
(*     sequences of Unicode code points and an i16 shift;                  *)
(*   - the four druid Controllers and the unwrapped shift text box, as     *)
(*     actions over the fields of AppData.  One action is one druid event  *)
(*     delivered to one widget: the child widget's own handling of the     *)
(*     event (child.event) followed by the controller's code after it.     *)
(*                                                                         *)
(* A text is a sequence of code points (naturals).  String::len() is the   *)
(* UTF-8 byte length, so ByteLen is computed from the code points.         *)
(***************************************************************************)
EXTENDS Integers, Sequences, FiniteSets, TLC

VARIABLES
    current_view,   \* AppData.current_view : u32
    conversion,     \* AppData.conversion   : ConversionType
    shift,          \* AppData.shift        : f64 (integer-valued in this model)
    plaintext,      \* AppData.plaintext    : Arc<String>
    ciphertext,     \* AppData.ciphertext   : Arc<String>
    panicked,       \* TRUE once an arithmetic overflow has aborted the process
    last,           \* history: the event processed last (widget, input)
    before,         \* history: AppData as it was when that event arrived
    arg_text,       \* cipher engine harness: the text given to encrypt
    arg_shift,      \* cipher engine harness: the shift given to encrypt
    enc_out,        \* cipher engine harness: encrypt(arg_text, arg_shift)
    dec_out,        \* cipher engine harness: encrypt(enc_out, -arg_shift)
    pc              \* cipher engine harness: "idle", "start", "enc", "dec", "panic"

vars == <<current_view, conversion, shift, plaintext, ciphertext, panicked,
          last, before, arg_text, arg_shift, enc_out, dec_out, pc>>

appVars == <<current_view, conversion, shift, plaintext, ciphertext, panicked,
             last, before>>

harnessVars == <<arg_text, arg_shift, enc_out, dec_out, pc>>

-----------------------------------------------------------------------------
(* Bounds of the model.                                                    *)

\* Longest text (in characters) the user types into a text box.
MaxLen == 2

\* Longest text (in characters) handed to encrypt by the cipher harness.
MaxCipherLen == 2

-----------------------------------------------------------------------------
(* Program constants.                                                      *)

\* main: shift: 6.0
InitShift == 6

\* shift_input lens: y.unwrap_or(5.0)
DefaultShift == 5

\* Stepper::with_range(1.0, 25.0)
StepperMin == 1

StepperMax == 25

\* Stepper::with_step(1.0)
StepperStep == 1

\* encrypt: the literal 65 ('A') and 97 ('a'), and the modulus 26
UpperBase == 65

LowerBase == 97

AlphabetSize == 26

\* enum ConversionType
Encryption == "Encryption"

Decryption == "Decryption"

-----------------------------------------------------------------------------
(* Characters.  The code point the model types runs of into the text      *)
(* boxes is 'z' (122), an ASCII letter at the alphabet boundary.           *)

Chars == {122}

\* U+00E9, a non-ASCII lowercase letter of two UTF-8 bytes: typed alone, it
\* is as long in bytes as "zz" and as long in characters as "z".
EAcute == <<233>>

\* The code points the cipher harness draws from, wider than Chars:
\*   ' ' 32, '0' 48, 'A' 65, 'Z' 90, 'a' 97, 'z' 122,
\*   U+00C9 (201) uppercase, U+00E9 (233) lowercase, U+0100 (256) uppercase,
\*   U+4E2D (20013) a CJK ideograph (alphabetic, no case).
CipherChars == {32, 48, 65, 90, 97, 122, 201, 233, 256, 20013}

\* char::is_alphabetic (Unicode Alphabetic), on the ranges the model draws
\* its characters from: Basic Latin, Latin-1 Supplement, Latin Extended-A
\* up to U+0137 and the CJK Unified Ideographs block.
IsAlphabetic(c) ==
    \/ c \in 65..90
    \/ c \in 97..122
    \/ c \in {170, 181, 186}
    \/ c \in 192..214
    \/ c \in 216..246
    \/ c \in 248..311
    \/ c \in 19968..40959

\* char::is_uppercase (Unicode Uppercase), on the same ranges.  In Latin
\* Extended-A up to U+0137 the uppercase letters are the even code points;
\* a CJK ideograph has no case.
IsUppercase(c) ==
    \/ c \in 65..90
    \/ c \in 192..214
    \/ c \in 216..222
    \/ (c \in 256..311 /\ c % 2 = 0)

\* The claims' notion of an ASCII letter, A-Z or a-z.
IsAsciiLetter(c) == c \in 65..90 \/ c \in 97..122

\* Number of bytes of the UTF-8 encoding of a code point.
Utf8Len(c) == IF c < 128 THEN 1 ELSE IF c < 2048 THEN 2 ELSE IF c < 65536 THEN 3 ELSE 4

\* String::len(): the length of the text in bytes.
RECURSIVE ByteLen(_)
ByteLen(t) == IF t = <<>> THEN 0 ELSE Utf8Len(Head(t)) + ByteLen(Tail(t))

\* All texts over the alphabet cs of at most n characters.
RECURSIVE TextsUpTo(_, _)
TextsUpTo(cs, n) ==
    IF n = 0 THEN {<<>>}
    ELSE LET shorter == TextsUpTo(cs, n - 1)
         IN  shorter \cup {Append(t, c) : t \in shorter, c \in cs}

\* The texts the model types into the plaintext and ciphertext boxes.
Texts == TextsUpTo(Chars, MaxLen) \cup {EAcute}

CipherTexts == TextsUpTo(CipherChars, MaxCipherLen)

-----------------------------------------------------------------------------
(* Integer conversions of Rust.                                            *)

I16Min == -32768

I16Max == 32767

InI16(x) == x >= I16Min /\ x <= I16Max

\* i16 arithmetic with overflow checks off: two's complement wrap-around.
Wrap16(x) == ((x - I16Min) % 65536) + I16Min

\* `f as i16` for an integer-valued f64: saturating.
AsI16(x) == IF x > I16Max THEN I16Max ELSE IF x < I16Min THEN I16Min ELSE x

\* `c as u8` for a char and `n as u8` for an i16: truncation to the low byte.
AsU8(x) == x % 256

\* i16::rem_euclid: the non-negative remainder (TLC's % is the floored one).
RemEuclid(a, n) == a % n

-----------------------------------------------------------------------------
(* The cipher engine: fn encrypt(plaintext: &str, shift: i16) -> String.   *)

\* `(c as u8) as i16 + shift - base` overflows i16 at the addition or at the
\* subtraction.  With overflow checks on (debug builds) that is a panic, with
\* them off (release builds) the value wraps.
CharOverflows(c, s) ==
    /\ IsAlphabetic(c)
    /\ LET base == IF IsUppercase(c) THEN UpperBase ELSE LowerBase
       IN  \/ ~InI16(AsU8(c) + s)
           \/ ~InI16(Wrap16(AsU8(c) + s) - base)

\* One iteration of the loop of encrypt: the character pushed for c.
EncryptChar(c, s) ==
    IF IsAlphabetic(c)
    THEN IF IsUppercase(c)
         THEN AsU8(UpperBase + RemEuclid(Wrap16(Wrap16(AsU8(c) + s) - UpperBase), AlphabetSize))
         ELSE AsU8(LowerBase + RemEuclid(Wrap16(Wrap16(AsU8(c) + s) - LowerBase), AlphabetSize))
    ELSE c

\* encrypt, where it returns: the characters pushed, in order.
encrypt(text, s) == [i \in 1..Len(text) |-> EncryptChar(text[i], s)]

\* encrypt panics on this input when the build checks overflow.
EncryptOverflows(text, s) == \E i \in 1..Len(text) : CharOverflows(text[i], s)

-----------------------------------------------------------------------------
(* The shift text box: LensWrap::new(Parse::new(TextBox::new()), lens),    *)
(* where the lens is AppData::shift.map(get, put) with get = Some(shift)   *)
(* and put = shift := y.unwrap_or(5.0).                                    *)

\* How many steps the model lets the stepper walk the shift away from a
\* value that was set directly (at launch or through the shift text box).
MaxWalk == 1

\* ASCII code points of the characters of an entry.
IsDigit(c) == c \in 48..57

IsSign(c) == c \in {43, 45}

\* The value of a non-empty run of decimal digits.
RECURSIVE DigitsValue(_)
DigitsValue(ds) ==
    IF ds = <<>> THEN 0
    ELSE 10 * DigitsValue(SubSeq(ds, 1, Len(ds) - 1)) + (ds[Len(ds)] - 48)

\* str::parse::<f64>() then .ok(), on texts made of signs, digits and letters
\* that start no float literal: an optional sign followed by one or more
\* digits is Some(value), anything else is None.
ParseF64(entry) ==
    LET ds == IF entry # <<>> /\ IsSign(entry[1]) THEN Tail(entry) ELSE entry
    IN  IF ds # <<>> /\ \A i \in 1..Len(ds) : IsDigit(ds[i])
        THEN [some |-> TRUE,
              value |-> IF entry[1] = 45 THEN 0 - DigitsValue(ds) ELSE DigitsValue(ds)]
        ELSE [some |-> FALSE, value |-> 0]

\* The decimal digits of a natural number.
RECURSIVE NatToString(_)
NatToString(n) ==
    IF n < 10 THEN <<48 + n>> ELSE Append(NatToString(n \div 10), 48 + (n % 10))

\* f64::to_string() of an integer-valued float: the text the box shows for
\* the current shift, and the text an event without an edit leaves in it.
ShiftToString(x) == IF x < 0 THEN <<45>> \o NatToString(0 - x) ELSE NatToString(x)

\* The texts the model types into the shift box:
\*   "0", "26", "-1", "40000", "x", "" (the box cleared).
ShiftEntries ==
    { <<48>>, <<50, 54>>, <<45, 49>>, <<52, 48, 48, 48, 48>>, <<120>>, <<>> }

\* The put half of the lens: shift := y.unwrap_or(5.0).
LensPut(parsed) == IF parsed.some THEN parsed.value ELSE DefaultShift

-----------------------------------------------------------------------------
(* The stepper: Stepper::new().with_range(1.0, 25.0).with_step(1.0)        *)
(* .with_wraparound(false).  It clamps only on the side it moves towards.  *)

StepperIncrement(x) ==
    IF x + StepperStep > StepperMax THEN StepperMax ELSE x + StepperStep

StepperDecrement(x) ==
    IF x - StepperStep < StepperMin THEN StepperMin ELSE x - StepperStep

\* The value the stepper's own event handler leaves in data.shift.
StepperChild(click, x) ==
    CASE click = "increment" -> StepperIncrement(x)
      [] click = "decrement" -> StepperDecrement(x)
      [] OTHER -> x

StepperClicks == {"increment", "decrement", "none"}

\* The shifts set directly: the launch value and what the lens stores for
\* the entries of the shift text box.
ShiftAnchors == {InitShift} \cup {LensPut(ParseF64(e)) : e \in ShiftEntries}

\* The shifts the model lets the stepper produce.
ShiftWalk == {a + d : a \in ShiftAnchors, d \in (0 - MaxWalk)..MaxWalk}

-----------------------------------------------------------------------------
(* AppData, its initial value, and the history of the last event.         *)

\* struct AppData, as a record of its five fields.
AppData ==
    [current_view |-> current_view, conversion |-> conversion, shift |-> shift,
     plaintext |-> plaintext, ciphertext |-> ciphertext]

\* main: the AppData handed to AppLauncher::launch.
LaunchData ==
    [current_view |-> 0, conversion |-> Encryption, shift |-> InitShift,
     plaintext |-> <<>>, ciphertext |-> <<>>]

\* The state when the window opens.
Init ==
    /\ current_view = LaunchData.current_view
    /\ conversion = LaunchData.conversion
    /\ shift = LaunchData.shift
    /\ plaintext = LaunchData.plaintext
    /\ ciphertext = LaunchData.ciphertext
    /\ panicked = FALSE
    /\ last = [widget |-> "launch", input |-> <<>>]
    /\ before = LaunchData
    /\ arg_text = <<>>
    /\ arg_shift = 0
    /\ enc_out = <<>>
    /\ dec_out = <<>>
    /\ pc = "idle"

\* Every event records the widget it went to, what the child widget did
\* with it, and the AppData it found.
Record(widget, input) ==
    /\ last' = [widget |-> widget, input |-> input]
    /\ before' = AppData

-----------------------------------------------------------------------------
(* The controllers.  Each action is Controller::event: old_data is taken,  *)
(* child.event applies the user's input to the field behind the lens, and  *)
(* the controller's code runs on the result.                               *)

\* ConversionController::event as it would be if a toggle recomputed the
\* derived text of the new direction.
ConversionControllerRecomputing(choice) ==
    /\ ~panicked
    /\ conversion' = choice
    /\ current_view' = IF choice # conversion
                       THEN IF choice = Encryption THEN 0 ELSE 1
                       ELSE current_view
    /\ IF choice = conversion
       THEN UNCHANGED <<plaintext, ciphertext>>
       ELSE IF choice = Encryption
            THEN ciphertext' = encrypt(plaintext, AsI16(shift)) /\ UNCHANGED plaintext
            ELSE plaintext' = encrypt(ciphertext, AsI16(0 - shift)) /\ UNCHANGED ciphertext
    /\ UNCHANGED <<shift, panicked>>
    /\ last' = [widget |-> "conversion_picker", input |-> choice]
    /\ before' = AppData
    /\ UNCHANGED harnessVars

\* ConversionController::event as it would be if lines 53-57 tested the
\* direction the event found instead of the one the radio group stored.
ConversionControllerStaleView(choice) ==
    /\ ~panicked
    /\ LET old_data == conversion
       IN  /\ conversion' = choice
           /\ current_view' = IF choice # old_data
                              THEN IF old_data = Encryption THEN 0 ELSE 1
                              ELSE current_view
    /\ UNCHANGED <<shift, plaintext, ciphertext, panicked>>
    /\ Record("conversion_picker", choice)
    /\ UNCHANGED harnessVars

\* impl Controller for ConversionController.  The child is the RadioGroup:
\* a click on a radio button stores its variant in data.conversion, so
\* choice is the variant the field holds after child.event (the current one
\* for a click on the selected button and for any other event).
ConversionControllerEvent(choice) ==
    /\ ~panicked
    /\ LET old_data == conversion
       IN  /\ conversion' = choice
           /\ current_view' = IF choice # old_data
                              THEN IF choice = Encryption THEN 0 ELSE 1
                              ELSE current_view
    /\ UNCHANGED <<shift, plaintext, ciphertext, panicked>>
    /\ Record("conversion_picker", choice)
    /\ UNCHANGED harnessVars

\* ShiftController::event as it would be with the two branches of line 69
\* exchanged: the source field is written from the derived one.
ShiftControllerSwapped(click) ==
    /\ ~panicked
    /\ LET old_data == shift
           new      == StepperChild(click, shift)
       IN  /\ new \in ShiftWalk
           /\ shift' = new
           /\ IF new # old_data
              THEN IF conversion = Decryption
                   THEN \/ /\ ciphertext' = encrypt(plaintext, AsI16(new))
                           /\ UNCHANGED <<plaintext, panicked>>
                        \/ /\ EncryptOverflows(plaintext, AsI16(new))
                           /\ panicked' = TRUE
                           /\ UNCHANGED <<plaintext, ciphertext>>
                   ELSE \/ /\ plaintext' = encrypt(ciphertext, AsI16(0 - new))
                           /\ UNCHANGED <<ciphertext, panicked>>
                        \/ /\ EncryptOverflows(ciphertext, AsI16(0 - new))
                           /\ panicked' = TRUE
                           /\ UNCHANGED <<plaintext, ciphertext>>
              ELSE UNCHANGED <<plaintext, ciphertext, panicked>>
    /\ UNCHANGED <<current_view, conversion>>
    /\ Record("shift_stepper", click)
    /\ UNCHANGED harnessVars

\* impl Controller for ShiftController.  The child is the Stepper.  encrypt
\* is called with `data.shift as i16` or `-data.shift as i16`; where it
\* overflows, a build with overflow checks panics and one without them
\* carries on with the wrapped value.
ShiftControllerEvent(click) ==
    /\ ~panicked
    /\ LET old_data == shift
           new      == StepperChild(click, shift)
       IN  /\ new \in ShiftWalk
           /\ shift' = new
           /\ IF new # old_data
              THEN IF conversion = Encryption
                   THEN \/ /\ ciphertext' = encrypt(plaintext, AsI16(new))
                           /\ UNCHANGED <<plaintext, panicked>>
                        \/ /\ EncryptOverflows(plaintext, AsI16(new))
                           /\ panicked' = TRUE
                           /\ UNCHANGED <<plaintext, ciphertext>>
                   ELSE \/ /\ plaintext' = encrypt(ciphertext, AsI16(0 - new))
                           /\ UNCHANGED <<ciphertext, panicked>>
                        \/ /\ EncryptOverflows(ciphertext, AsI16(0 - new))
                           /\ panicked' = TRUE
                           /\ UNCHANGED <<plaintext, ciphertext>>
              ELSE UNCHANGED <<plaintext, ciphertext, panicked>>
    /\ UNCHANGED <<current_view, conversion>>
    /\ Record("shift_stepper", click)
    /\ UNCHANGED harnessVars

\* shift_input: the numeric text box.  No controller wraps it; every event
\* parses the text the box holds after the event and stores the result
\* through the lens.  entry is that text.
ShiftInputEvent(entry) ==
    /\ ~panicked
    /\ shift' = LensPut(ParseF64(entry))
    /\ UNCHANGED <<current_view, conversion, plaintext, ciphertext, panicked>>
    /\ Record("shift_input", entry)
    /\ UNCHANGED harnessVars

\* The condition of line 84 as it would be with the direction test left out.
PlaintextRecomputesByLengthAlone(new) == ByteLen(new) # ByteLen(ciphertext)

\* PlaintextController::event, the condition of its if (line 84), on the
\* plaintext the text box holds after child.event.
PlaintextRecomputes(new) ==
    conversion = Encryption /\ ByteLen(new) # ByteLen(ciphertext)

\* impl Controller for PlaintextController.  The child is the plaintext
\* TextBox; new is the text it holds after child.event (the current text
\* for an event that edits nothing).
PlaintextControllerEvent(new) ==
    /\ ~panicked
    /\ LET old_data == plaintext
       IN  IF PlaintextRecomputes(new)
           THEN \/ /\ ciphertext' = encrypt(old_data, AsI16(shift))
                   /\ plaintext' = new
                   /\ UNCHANGED panicked
                \/ /\ EncryptOverflows(old_data, AsI16(shift))
                   /\ panicked' = TRUE
                   /\ plaintext' = new
                   /\ UNCHANGED ciphertext
           ELSE /\ plaintext' = old_data
                /\ UNCHANGED <<ciphertext, panicked>>
    /\ UNCHANGED <<current_view, conversion, shift>>
    /\ Record("plaintext", new)
    /\ UNCHANGED harnessVars

\* The condition of line 98 as it would be with the direction test left out.
CiphertextRecomputesByLengthAlone(new) == ByteLen(new) # ByteLen(plaintext)

\* The condition of line 98 as it would be with the comparison of the
\* lengths turned round.
CiphertextRecomputesOnEqualLength(new) ==
    conversion = Decryption /\ ByteLen(new) = ByteLen(plaintext)

\* CiphertextController::event, the condition of its if (line 98).
CiphertextRecomputes(new) ==
    conversion = Decryption /\ ByteLen(new) # ByteLen(plaintext)

\* impl Controller for CiphertextController.  The child is the ciphertext
\* TextBox; new is the text it holds after child.event.
CiphertextControllerEvent(new) ==
    /\ ~panicked
    /\ LET old_data == ciphertext
       IN  IF CiphertextRecomputes(new)
           THEN \/ /\ plaintext' = encrypt(old_data, AsI16(0 - shift))
                   /\ ciphertext' = new
                   /\ UNCHANGED panicked
                \/ /\ EncryptOverflows(old_data, AsI16(0 - shift))
                   /\ panicked' = TRUE
                   /\ ciphertext' = new
                   /\ UNCHANGED plaintext
           ELSE /\ ciphertext' = old_data
                /\ UNCHANGED <<plaintext, panicked>>
    /\ UNCHANGED <<current_view, conversion, shift>>
    /\ Record("ciphertext", new)
    /\ UNCHANGED harnessVars

\* One event of the druid event loop, delivered to one of the five widgets.
Next ==
    \/ \E choice \in {Encryption, Decryption} : ConversionControllerEvent(choice)
    \/ \E click \in StepperClicks : ShiftControllerEvent(click)
    \/ \E entry \in ShiftEntries \cup {ShiftToString(shift)} : ShiftInputEvent(entry)
    \/ \E new \in Texts \cup {plaintext} : PlaintextControllerEvent(new)
    \/ \E new \in Texts \cup {ciphertext} : CiphertextControllerEvent(new)

Spec == Init /\ [][Next]_vars

-----------------------------------------------------------------------------
(* The cipher engine on its own: encrypt is applied to a text and a shift  *)
(* drawn from bounded sets, and then to its own result with the negated    *)
(* shift, as the controllers apply it in the two directions.               *)

\* The i16 shifts the harness draws from: both extremes that can be negated,
\* multiples of the alphabet size and their neighbours, and small shifts.
CipherShifts == {0 - I16Max, -27, -26, -1, 0, 1, 3, 13, 25, 26, 27, I16Max}

\* The text of the documented example, "Hello, World!", beside the bounded
\* texts.
HelloWorld == <<72, 101, 108, 108, 111, 44, 32, 87, 111, 114, 108, 100, 33>>

CipherInit ==
    /\ current_view = LaunchData.current_view
    /\ conversion = LaunchData.conversion
    /\ shift = LaunchData.shift
    /\ plaintext = LaunchData.plaintext
    /\ ciphertext = LaunchData.ciphertext
    /\ panicked = FALSE
    /\ last = [widget |-> "launch", input |-> <<>>]
    /\ before = LaunchData
    /\ arg_text \in CipherTexts \cup {HelloWorld}
    /\ arg_shift \in CipherShifts
    /\ enc_out = <<>>
    /\ dec_out = <<>>
    /\ pc = "start"

\* encrypt(arg_text, arg_shift) returns.
EncryptCall ==
    /\ pc = "start"
    /\ enc_out' = encrypt(arg_text, arg_shift)
    /\ pc' = "enc"
    /\ UNCHANGED <<arg_text, arg_shift, dec_out>>
    /\ UNCHANGED appVars

\* encrypt(arg_text, arg_shift) panics: a build that checks overflow.
EncryptPanic ==
    /\ pc = "start"
    /\ EncryptOverflows(arg_text, arg_shift)
    /\ pc' = "panic"
    /\ UNCHANGED <<arg_text, arg_shift, enc_out, dec_out>>
    /\ UNCHANGED appVars

\* encrypt(enc_out, -arg_shift) returns.
DecryptCall ==
    /\ pc = "enc"
    /\ dec_out' = encrypt(enc_out, 0 - arg_shift)
    /\ pc' = "dec"
    /\ UNCHANGED <<arg_text, arg_shift, enc_out>>
    /\ UNCHANGED appVars

\* encrypt(enc_out, -arg_shift) panics: a build that checks overflow.
DecryptPanic ==
    /\ pc = "enc"
    /\ EncryptOverflows(enc_out, 0 - arg_shift)
    /\ pc' = "panic"
    /\ UNCHANGED <<arg_text, arg_shift, enc_out, dec_out>>
    /\ UNCHANGED appVars

CipherNext == EncryptCall \/ EncryptPanic \/ DecryptCall \/ DecryptPanic

SpecCipher == CipherInit /\ [][CipherNext]_vars

-----------------------------------------------------------------------------
(* The claims.  `last` names the widget the last event went to and the     *)
(* value its child widget left in the field; `before` is the AppData that  *)
(* event found.  The text controllers change neither shift nor conversion, *)
(* so in a state that follows one of their events both still have the      *)
(* values the event found.                                                 *)

\* The last event's handler returned (no overflow panic ended the process).
Returned == ~panicked

\* C1: after a plaintext edit in the Encrypt direction has been processed,
\* plaintext is the edited text P' and ciphertext is cipher(P', shift),
\* also when P' is as long as the ciphertext the edit found.
C1_PlaintextEditEncryptsNewText ==
    (last.widget = "plaintext" /\ before.conversion = Encryption /\ Returned)
        => /\ plaintext = last.input
           /\ ciphertext = encrypt(last.input, AsI16(shift))

\* C2: after a ciphertext edit in the Decrypt direction has been processed,
\* ciphertext is the edited text C' and plaintext is cipher(C', -shift),
\* also when C' is as long as the plaintext the edit found.
C2_CiphertextEditDecryptsNewText ==
    (last.widget = "ciphertext" /\ before.conversion = Decryption /\ Returned)
        => /\ ciphertext = last.input
           /\ plaintext = encrypt(last.input, AsI16(0 - shift))

\* C3: an edit of the derived field (ciphertext while encrypting, plaintext
\* while decrypting) is rejected whatever the lengths: after the event both
\* texts are what they were before it.
C3_DerivedFieldEditRejected ==
    (\/ last.widget = "ciphertext" /\ before.conversion = Encryption
     \/ last.widget = "plaintext" /\ before.conversion = Decryption)
        => /\ plaintext = before.plaintext
           /\ ciphertext = before.ciphertext

\* C3, its case: encrypting with shift 6, plaintext "zz" and ciphertext "ff",
\* the ciphertext box was edited to "z" (another length than the plaintext)
\* and the event has been processed.
C3_Witness ==
    /\ last.widget = "ciphertext"
    /\ last.input = <<122>>
    /\ before.conversion = Encryption
    /\ before.shift = 6
    /\ before.plaintext = <<122, 122>>
    /\ before.ciphertext = <<102, 102>>

\* C4: when the shift changes to s' through either shift input (the stepper
\* or the numeric text box), the derived field is recomputed with s' and the
\* source field is left alone.
C4_ShiftChangeRecomputes ==
    (/\ last.widget \in {"shift_stepper", "shift_input"}
     /\ shift # before.shift
     /\ Returned)
        => IF conversion = Encryption
           THEN /\ ciphertext = encrypt(plaintext, AsI16(shift))
                /\ plaintext = before.plaintext
           ELSE /\ plaintext = encrypt(ciphertext, AsI16(0 - shift))
                /\ ciphertext = before.ciphertext

\* C5: after every processed event, ciphertext = cipher(plaintext, shift)
\* while encrypting and plaintext = cipher(ciphertext, -shift) while
\* decrypting.
C5_Consistent ==
    Returned
        => /\ conversion = Encryption => ciphertext = encrypt(plaintext, AsI16(shift))
           /\ conversion = Decryption => plaintext = encrypt(ciphertext, AsI16(0 - shift))

\* C6: the shift held in AppData is always an integer in [1, 25].
C6_ShiftInRange == shift \in StepperMin..StepperMax

\* C7: an entry of the shift text box that does not parse as a number leaves
\* the shift at the value it had, and plaintext, ciphertext and direction
\* unchanged.
C7_MalformedShiftNotCommitted ==
    (last.widget = "shift_input" /\ ~ParseF64(last.input).some)
        => /\ shift = before.shift
           /\ plaintext = before.plaintext
           /\ ciphertext = before.ciphertext
           /\ conversion = before.conversion

\* C8: a change of direction leaves plaintext, ciphertext and shift exactly
\* as they were; no text is recomputed.
C8_ToggleLeavesTextsAndShift ==
    (last.widget = "conversion_picker" /\ conversion # before.conversion)
        => /\ plaintext = before.plaintext
           /\ ciphertext = before.ciphertext
           /\ shift = before.shift

\* C8, its case: the direction has just been switched from Encrypt to Decrypt
\* while plaintext held "z" and ciphertext did not hold its encryption, so a
\* recomputation would have shown.
C8_Witness ==
    /\ last.widget = "conversion_picker"
    /\ before.conversion = Encryption
    /\ conversion = Decryption
    /\ before.plaintext = <<122>>
    /\ before.plaintext # encrypt(before.ciphertext, AsI16(0 - before.shift))

\* C9: for every text and every shift s, encrypt(encrypt(text, s), -s) is the
\* text again.
C9_RoundTrip == pc = "dec" => dec_out = arg_text

\* C10: every character that is not an ASCII letter A-Z or a-z appears
\* unchanged and at the same position in encrypt(text, shift).
C10_NonLettersPassThrough ==
    pc \in {"enc", "dec"}
        => /\ Len(enc_out) = Len(arg_text)
           /\ \A i \in 1..Len(arg_text) :
                  ~IsAsciiLetter(arg_text[i]) => enc_out[i] = arg_text[i]

\* The letter the claims assign to the ASCII letter c under shift s: the
\* one at position (pos(c) + s) mod 26 of c's own case, with the modulo that
\* is never negative.
ShiftedLetter(c, s) ==
    IF c \in 65..90 THEN 65 + ((c - 65 + s) % 26) ELSE 97 + ((c - 97 + s) % 26)

\* C11: encrypt maps every ASCII letter, under every positive or negative
\* shift, to the letter at position (pos(c) + s) mod 26 of the same case; in
\* particular "Z" with 1 gives "A", "a" with -1 gives "z" and
\* "Hello, World!" with 3 gives "Khoor, Zruog!".
C11_LetterMapping ==
    pc \in {"enc", "dec"}
        => /\ \A i \in 1..Len(arg_text) :
                  IsAsciiLetter(arg_text[i])
                      => enc_out[i] = ShiftedLetter(arg_text[i], arg_shift)
           /\ (arg_text = <<90>> /\ arg_shift = 1) => enc_out = <<65>>
           /\ (arg_text = <<97>> /\ arg_shift = -1) => enc_out = <<122>>
           /\ (arg_text = HelloWorld /\ arg_shift = 3)
                  => enc_out = <<75, 104, 111, 111, 114, 44, 32, 90, 114, 117, 111, 103, 33>>

\* C12: encrypt never fails for any shift it can be called with, and its
\* result depends only on the shift modulo 26.
C12_TotalAndShiftModulo ==
    /\ pc # "panic"
    /\ pc \in {"enc", "dec"}
           => enc_out = encrypt(arg_text, arg_shift % AlphabetSize)

\* C13, as the claim states the rule: an edit is reverted only when the new
\* length of the edited field differs from the length of its paired field;
\* an edit that leaves the edited field as long as its paired field is kept,
\* in the authoritative field and in the other one.
C13_RevertOnlyWhenLengthsDiffer ==
    /\ last.widget = "plaintext"
           => /\ ByteLen(last.input) = ByteLen(before.ciphertext)
                     => plaintext = last.input
              /\ plaintext # last.input
                     => ByteLen(last.input) # ByteLen(before.ciphertext)
    /\ last.widget = "ciphertext"
           => /\ ByteLen(last.input) = ByteLen(before.plaintext)
                     => ciphertext = last.input
              /\ ciphertext # last.input
                     => ByteLen(last.input) # ByteLen(before.plaintext)

\* C13, amended: a text controller keeps an edit only when the edited field
\* is the authoritative one for the direction and its new byte length
\* differs from the byte length of its paired field; every other edit is
\* reverted, the edited field getting back the text it held before.
C13_KeptOnlyWhenAuthoritativeAndLengthsDiffer ==
    /\ last.widget = "plaintext"
           => plaintext = IF /\ before.conversion = Encryption
                             /\ ByteLen(last.input) # ByteLen(before.ciphertext)
                          THEN last.input
                          ELSE before.plaintext
    /\ last.widget = "ciphertext"
           => ciphertext = IF /\ before.conversion = Decryption
                              /\ ByteLen(last.input) # ByteLen(before.plaintext)
                           THEN last.input
                           ELSE before.ciphertext

\* C13, its case: decrypting, the ciphertext box was edited to a text as
\* long as the plaintext, and the controller has put the old text back.
C13_Witness ==
    /\ last.widget = "ciphertext"
    /\ before.conversion = Decryption
    /\ last.input # before.ciphertext
    /\ ByteLen(last.input) = ByteLen(before.plaintext)
    /\ ciphertext = before.ciphertext

\* An event that edits nothing, clicks nothing and toggles nothing, delivered
\* to one of the five widgets: each child leaves in its field the value the
\* field holds.
NoEditEvent ==
    \/ ConversionControllerEvent(conversion)
    \/ ShiftControllerEvent("none")
    \/ ShiftInputEvent(ShiftToString(shift))
    \/ PlaintextControllerEvent(plaintext)
    \/ CiphertextControllerEvent(ciphertext)

\* The last event was such an event.
LastWasNoEdit ==
    \/ last.widget = "conversion_picker" /\ last.input = before.conversion
    \/ last.widget = "shift_stepper" /\ last.input = "none"
    \/ last.widget = "shift_input" /\ last.input = ShiftToString(before.shift)
    \/ last.widget = "plaintext" /\ last.input = before.plaintext
    \/ last.widget = "ciphertext" /\ last.input = before.ciphertext

\* The last event went to the controller of the authoritative text field.
LastWentToAuthoritative ==
    \/ last.widget = "plaintext" /\ before.conversion = Encryption
    \/ last.widget = "ciphertext" /\ before.conversion = Decryption

\* No event that edits nothing can change AppData any more.
Quiescent == ~ENABLED (NoEditEvent /\ AppData' # AppData)

\* C14: a value a recompute wrote into the derived field is never taken for
\* an edit: an event without an edit changes AppData only when it goes to
\* the controller of the authoritative text field, so the derived field is
\* not reverted and the source field is not recomputed from it.  And once
\* such an event has gone to the authoritative controller, no further event
\* without an edit changes AppData.
C14_NoFeedbackAndQuiescence ==
    (LastWasNoEdit /\ Returned)
        => IF LastWentToAuthoritative
           THEN /\ Quiescent
                /\ AppData.current_view = before.current_view
                /\ conversion = before.conversion
                /\ shift = before.shift
                /\ conversion = Encryption => plaintext = before.plaintext
                /\ conversion = Decryption => ciphertext = before.ciphertext
           ELSE AppData = before

\* C14, its case: encrypting, the ciphertext was stale and of another length
\* than the plaintext; an event without an edit went to the plaintext
\* controller, which wrote the ciphertext anew.
C14_Witness ==
    /\ LastWasNoEdit
    /\ Returned
    /\ last.widget = "plaintext"
    /\ conversion = Encryption
    /\ plaintext # <<>>
    /\ ciphertext # before.ciphertext

\* C15: after every processed event current_view is 0 exactly when the
\* direction is Encryption and 1 exactly when it is Decryption; a change of
\* direction flips current_view and no other operation changes it.
C15_ViewTracksDirection ==
    /\ current_view = 0 <=> conversion = Encryption
    /\ current_view = 1 <=> conversion = Decryption
    /\ (last.widget = "conversion_picker" /\ conversion # before.conversion)
           => current_view = 1 - before.current_view
    /\ current_view # before.current_view
           => last.widget = "conversion_picker" /\ conversion # before.conversion

\* C15, its case: the direction has just been switched back from Decrypt to
\* Encrypt, and the view is the first one again.
C15_Witness ==
    /\ last.widget = "conversion_picker"
    /\ before.conversion = Decryption
    /\ before.current_view = 1
    /\ conversion = Encryption
    /\ current_view = 0

\* new is old with a run of characters inserted at one place.
Inserted(old, new) ==
    /\ Len(new) > Len(old)
    /\ \E i \in 0..Len(old) :
           /\ SubSeq(new, 1, i) = SubSeq(old, 1, i)
           /\ SubSeq(new, Len(new) - (Len(old) - i) + 1, Len(new))
                  = SubSeq(old, i + 1, Len(old))

\* The edit from old to new is an insertion or a deletion.
InsertionOrDeletion(old, new) == Inserted(old, new) \/ Inserted(new, old)

\* C16: no edit of the authoritative field is lost.  While encrypting, the
\* plaintext after an insertion or a deletion in the plaintext box is the
\* text that edit produced, and the events that follow it elsewhere leave
\* the plaintext as it is; likewise for the ciphertext while decrypting.
C16_NoAcceptedEditLost ==
    /\ (before.conversion = Encryption /\ conversion = Encryption)
           => IF last.widget = "plaintext"
              THEN InsertionOrDeletion(before.plaintext, last.input)
                       => plaintext = last.input
              ELSE plaintext = before.plaintext
    /\ (before.conversion = Decryption /\ conversion = Decryption)
           => IF last.widget = "ciphertext"
              THEN InsertionOrDeletion(before.ciphertext, last.input)
                       => ciphertext = last.input
              ELSE ciphertext = before.ciphertext

\* C17: encrypt preserves length: for every text and shift the result has
\* as many characters as the text and as many bytes, the length the
\* controllers compare with len().
C17_EncryptPreservesLength ==
    /\ pc \in {"enc", "dec"}
           => /\ Len(enc_out) = Len(arg_text)
              /\ ByteLen(enc_out) = ByteLen(arg_text)
    /\ pc = "dec"
           => /\ Len(dec_out) = Len(enc_out)
              /\ ByteLen(dec_out) = ByteLen(enc_out)

\* C18: a change of direction preserves consistency, for every text and
\* every shift in [1, 25]: if ciphertext = encrypt(plaintext, shift) held
\* while encrypting right before a switch to Decrypt, then plaintext =
\* encrypt(ciphertext, -shift) holds right after it, and the other way round
\* for a switch from Decrypt to Encrypt.
C18_TogglePreservesConsistency ==
    (/\ last.widget = "conversion_picker"
     /\ conversion # before.conversion
     /\ before.shift \in StepperMin..StepperMax)
        => /\ (/\ before.conversion = Encryption
                /\ before.ciphertext
                       = encrypt(before.plaintext, AsI16(before.shift)))
                  => plaintext = encrypt(ciphertext, AsI16(0 - shift))
           /\ (/\ before.conversion = Decryption
                /\ before.plaintext
                       = encrypt(before.ciphertext, AsI16(0 - before.shift)))
                  => ciphertext = encrypt(plaintext, AsI16(shift))

\* C19: an event processed by PlaintextController or CiphertextController
\* leaves shift, conversion and current_view unchanged, and an event
\* processed by ShiftController leaves conversion, current_view and the
\* source field of the current direction unchanged.
C19_ControllerFrames ==
    /\ last.widget \in {"plaintext", "ciphertext"}
           => /\ shift = before.shift
              /\ conversion = before.conversion
              /\ current_view = before.current_view
    /\ last.widget = "shift_stepper"
           => /\ conversion = before.conversion
              /\ current_view = before.current_view
              /\ conversion = Encryption => plaintext = before.plaintext
              /\ conversion = Decryption => ciphertext = before.ciphertext

\* C19, its case: encrypting a plaintext that is not empty, a click on the
\* stepper changed the shift and the controller wrote the ciphertext anew.
C19_Witness ==
    /\ last.widget = "shift_stepper"
    /\ shift # before.shift
    /\ conversion = Encryption
    /\ plaintext # <<>>
    /\ ciphertext # before.ciphertext

====
